---- MODULE Spec2Model ----
(***************************************************************************)
(* Interval reconstruction of src/main.py: calculate_all_groups_time       *)
(* replays one ticket's audit log once per group and builds, per group,    *)
(* the periods during which the group was assigned.                        *)
(*                                                                         *)
(* Strings are sequences of one-character strings, so that rfind, slicing, *)
(* strip and int() are computed on the characters.  A date_mod string is   *)
(* abbreviated to the two digits of its seconds field (the other fields of *)
(* the fixed pattern '%Y-%m-%d %H:%M:%S' being equal); a datetime is the   *)
(* number of seconds, a timedelta a (possibly negative) number of seconds. *)
(* An Optional value is <<>> (None) or <<v>>.                              *)
(***************************************************************************)
EXTENDS Integers, Sequences, FiniteSets, TLC

VARIABLES
    logs,               \* the log list handed to calculate_all_groups_time
    clock,              \* what datetime.datetime.now() returns at this moment
    pc,                 \* position in calculate_all_groups_time
    sorted_logs,        \* main.py:235
    groups,             \* main.py:238, dict group id -> GroupInfo
    pending,            \* group ids the loop of main.py:247 has still to visit
    group_info,         \* argument of the running calculate_time_spent_for_group
    idx,                \* position of its for loop (main.py:175) in sorted_logs
    total_duration,     \* main.py:167
    last_assign_date,   \* main.py:168
    is_assigned,        \* main.py:169
    assignment_periods, \* main.py:170
    results,            \* main.py:246
    accepted,           \* history: the events the running replay acted on
    nows,               \* history: the clock readings of main.py:205 in this call
    calls,              \* history: number of calls started on this log list
    first_results,      \* history: what the first call returned
    first_nows,         \* history: the clock readings of the first call
    server,             \* what get_ticket_subitems returns for each ticket id
    ticket_ids,         \* the list handed to analyze_multiple_tickets
    apc,                \* position in analyze_multiple_tickets
    position,           \* position of its for loop (main.py:370) in ticket_ids
    all_tickets_results, \* main.py:358
    group_totals,       \* main.py:359-364
    run,                \* history: which run over the tickets this is
    first_ids,          \* history: the list of the first run
    first_tickets,      \* history: all_tickets_results of the first run
    first_totals,       \* history: group_totals of the first run
    start_id,           \* argument of analyze_ticket_range
    end_id,             \* argument of analyze_ticket_range
    analysed,           \* history: the ticket ids analyze_all_groups_time was
                        \* called with in this run, in call order
    reconstructed,      \* history: the ticket ids whose log this run handed to
                        \* calculate_all_groups_time (main.py:318)
    mpc,                \* position in main
    session_token,      \* GLPISession.session_token (main.py:58, 61)
    error,              \* the error authenticate_glpi returned (main.py:61)
    as_token,           \* the target of 'as' in the with statement of main
    steps,              \* statements of the with body that have run
    exc_type,           \* the exception that is propagating, if any
    killed,             \* history: the calls of kill_session, each with its
                        \* token and whether it reported success
    outcome             \* how main ended

\* the arguments of analyze_ticket_range and the calls a run has made
driver == <<start_id, end_id, analysed, reconstructed>>

\* the GLPISession of main and what main does with it
session == <<mpc, session_token, error, as_token, steps, exc_type, killed,
             outcome>>

\* the state of analyze_multiple_tickets and what is remembered of its runs
analysis == <<server, ticket_ids, apc, position, all_tickets_results,
              group_totals, run, first_ids, first_tickets, first_totals, driver>>

\* what a call of calculate_all_groups_time leaves alone
agg == <<analysis, session>>

vars == <<logs, clock, pc, sorted_logs, groups, pending, group_info, idx,
          total_duration, last_assign_date, is_assigned, assignment_periods,
          results, accepted, nows, calls, first_results, first_nows, agg>>

(***************************************************************************)
(* Bounds                                                                  *)
(***************************************************************************)
MaxLen == 3      \* entries in one ticket's log
MaxTime == 2     \* distinct timestamps an entry may carry
TimeBase == 8    \* timestamps are TimeBase+1 .. TimeBase+MaxTime
MaxTicks == 1    \* seconds the clock may advance while the program runs
MaxCalls == 2    \* calls of calculate_all_groups_time on the same log list
MaxRerunLen == 2 \* entries in a log that is analysed more than once
MaxDirtyLen == 2 \* entries in a log with data-quality anomalies
MaxSortLen == 3  \* entries in a log whose sorting is examined
MaxStrLen == 5   \* characters in a group token whose parsing is examined
MaxTickets == 2  \* tickets handed to analyze_multiple_tickets
MaxAggLen == 1   \* entries in the log of a ticket that is aggregated
MaxGrowLen == 2  \* entries in a log before GLPI appends to it
MaxTokenLen == 3 \* characters of a session token
MaxBodySteps == 3 \* statements of the with body of main

(***************************************************************************)
(* Program constants                                                       *)
(***************************************************************************)
GROUP_ASSIGNED_ACTION == 15
GROUP_UNASSIGNED_ACTION == 16

None == <<>>
Some(v) == <<v>>

(***************************************************************************)
(* Characters and strings                                                  *)
(***************************************************************************)
Digits == <<"0", "1", "2", "3", "4", "5", "6", "7", "8", "9">>

IsDigit(c) == \E k \in 1..10 : Digits[k] = c

DigitVal(c) == (CHOOSE k \in 1..10 : Digits[k] = c) - 1

IsSpace(c) == c = " "

\* mutant: str.find(c), the first occurrence
rfind_First(s, c) ==
    LET hits == {k \in 1..Len(s) : s[k] = c}
    IN  IF hits = {} THEN -1
        ELSE (CHOOSE k \in hits : \A j \in hits : k <= j) - 1

\* str.rfind(c): 0-based index of the last occurrence, -1 when absent
rfind(s, c) ==
    LET hits == {k \in 1..Len(s) : s[k] = c}
    IN  IF hits = {} THEN -1
        ELSE (CHOOSE k \in hits : \A j \in hits : j <= k) - 1

\* s[a:b] with 0 <= a, 0 <= b <= len(s), Python's 0-based half-open slice
Slice(s, a, b) == SubSeq(s, a + 1, b)

\* str.strip()
strip(s) ==
    LET keep == {k \in 1..Len(s) : ~IsSpace(s[k])}
    IN  IF keep = {} THEN <<>>
        ELSE SubSeq(s, CHOOSE k \in keep : \A j \in keep : k <= j,
                       CHOOSE k \in keep : \A j \in keep : j <= k)

\* the value of a string of digits and underscores, underscores skipped
RECURSIVE DigitsValue(_, _)
DigitsValue(s, acc) ==
    IF s = <<>> THEN acc
    ELSE IF Head(s) = "_" THEN DigitsValue(Tail(s), acc)
    ELSE DigitsValue(Tail(s), 10 * acc + DigitVal(Head(s)))

\* int(s): Some(n), or None where Python raises ValueError
int(s) ==
    LET t == strip(s)
        signed == t # <<>> /\ t[1] \in {"+", "-"}
        body == IF signed THEN Tail(t) ELSE t
        wellFormed ==
            /\ body # <<>>
            /\ \A k \in 1..Len(body) : IsDigit(body[k]) \/ body[k] = "_"
            /\ IsDigit(body[1]) /\ IsDigit(body[Len(body)])
            /\ \A k \in 1..(Len(body) - 1) : ~(body[k] = "_" /\ body[k + 1] = "_")
    IN  IF ~wellFormed THEN None
        ELSE IF signed /\ t[1] = "-" THEN Some(0 - DigitsValue(body, 0))
        ELSE Some(DigitsValue(body, 0))

\* Python's < on strings of digits: lexicographic by code point
RECURSIVE StrLess(_, _)
StrLess(a, b) ==
    IF b = <<>> THEN FALSE
    ELSE IF a = <<>> THEN TRUE
    ELSE IF Head(a) = Head(b) THEN StrLess(Tail(a), Tail(b))
    ELSE DigitVal(Head(a)) < DigitVal(Head(b))

(***************************************************************************)
(* Dates                                                                   *)
(***************************************************************************)
\* how the log source writes second t in the fixed, zero-padded pattern
DateStr(t) == <<Digits[(t \div 10) + 1], Digits[(t % 10) + 1]>>

parse_glpi_date(s) == 10 * DigitVal(s[1]) + DigitVal(s[2])

(***************************************************************************)
(* GroupInfo and extract_group_info_from_value                             *)
(***************************************************************************)
GroupInfo(id, name) == [id |-> id, name |-> name]

\* mutant: a token that does not parse yields a group 0 named by the token
extract_group_info_from_value_Lenient(value) ==
    IF value = <<>> \/ strip(value) = <<>> THEN None
    ELSE
        LET start == rfind(value, "(")
            end == rfind(value, ")")
        IN  IF start # -1 /\ end # -1 /\ start < end
            THEN LET group_id == int(Slice(value, start + 1, end))
                 IN  IF group_id = None THEN Some(GroupInfo(0, strip(value)))
                     ELSE Some(GroupInfo(group_id[1], strip(Slice(value, 0, start))))
            ELSE Some(GroupInfo(0, strip(value)))

extract_group_info_from_value(value) ==
    IF value = <<>> \/ strip(value) = <<>> THEN None
    ELSE
        LET start == rfind(value, "(")
            end == rfind(value, ")")
        IN  IF start # -1 /\ end # -1 /\ start < end
            THEN LET group_id == int(Slice(value, start + 1, end))
                 IN  IF group_id = None THEN None
                     ELSE Some(GroupInfo(group_id[1], strip(Slice(value, 0, start))))
            ELSE None

(***************************************************************************)
(* sorted(logs, key=lambda x: x['date_mod']): stable, by the string        *)
(***************************************************************************)
\* mutant: the log is sorted newest first
RECURSIVE InsertByDate_Descending(_, _)
InsertByDate_Descending(sortedSeq, e) ==
    IF sortedSeq = <<>> THEN <<e>>
    ELSE IF StrLess(Head(sortedSeq).date_mod, e.date_mod) THEN <<e>> \o sortedSeq
    ELSE <<Head(sortedSeq)>> \o InsertByDate_Descending(Tail(sortedSeq), e)

\* mutant: an entry is put before the entries of the same date_mod
RECURSIVE InsertByDate_Unstable(_, _)
InsertByDate_Unstable(sortedSeq, e) ==
    IF sortedSeq = <<>> THEN <<e>>
    ELSE IF ~StrLess(Head(sortedSeq).date_mod, e.date_mod) THEN <<e>> \o sortedSeq
    ELSE <<Head(sortedSeq)>> \o InsertByDate_Unstable(Tail(sortedSeq), e)

RECURSIVE InsertByDate(_, _)
InsertByDate(sortedSeq, e) ==
    IF sortedSeq = <<>> THEN <<e>>
    ELSE IF StrLess(e.date_mod, Head(sortedSeq).date_mod) THEN <<e>> \o sortedSeq
    ELSE <<Head(sortedSeq)>> \o InsertByDate(Tail(sortedSeq), e)

RECURSIVE SortFrom(_, _)
SortFrom(acc, rest) ==
    IF rest = <<>> THEN acc
    ELSE SortFrom(InsertByDate(acc, Head(rest)), Tail(rest))

\* mutant: the log is replayed in the order it was supplied
sorted_Unsorted(ls) == ls

sorted(ls) == SortFrom(<<>>, ls)

(***************************************************************************)
(* get_all_groups_from_logs                                                *)
(***************************************************************************)
\* mutant: the itemtype_link test of main.py:135 dropped
GroupsAdd_AnyLink(gs, log) ==
    LET found ==
            IF log.linked_action = GROUP_ASSIGNED_ACTION
            THEN extract_group_info_from_value(log.new_value)
            ELSE IF log.linked_action = GROUP_UNASSIGNED_ACTION
            THEN extract_group_info_from_value(log.old_value)
            ELSE None
    IN  IF found # None /\ found[1].id \notin DOMAIN gs
        THEN gs @@ (found[1].id :> found[1])
        ELSE gs

\* one iteration of the loop of main.py:134-145
GroupsAdd(gs, log) ==
    IF log.itemtype_link = "Group"
    THEN LET found ==
                 IF log.linked_action = GROUP_ASSIGNED_ACTION
                 THEN extract_group_info_from_value(log.new_value)
                 ELSE IF log.linked_action = GROUP_UNASSIGNED_ACTION
                 THEN extract_group_info_from_value(log.old_value)
                 ELSE None
         IN  IF found # None /\ found[1].id \notin DOMAIN gs
             THEN gs @@ (found[1].id :> found[1])
             ELSE gs
    ELSE gs

RECURSIVE GroupsFrom(_, _)
GroupsFrom(gs, ls) ==
    IF ls = <<>> THEN gs ELSE GroupsFrom(GroupsAdd(gs, Head(ls)), Tail(ls))

get_all_groups_from_logs(ls) == GroupsFrom(<<>>, ls)

\* sorted(d.keys()) for a dict with integer keys
RECURSIVE SortedKeys(_)
SortedKeys(S) ==
    IF S = {} THEN <<>>
    ELSE LET m == CHOOSE x \in S : \A y \in S : x <= y
         IN  <<m>> \o SortedKeys(S \ {m})

(***************************************************************************)
(* The log entries a ticket's log is drawn from                            *)
(***************************************************************************)
ValA1 == <<"A", " ", "(", "1", ")">>     \* 'A (1)'
ValB2 == <<"B", " ", "(", "2", ")">>     \* 'B (2)'
ValZ1 == <<"Z", "(", "1", ")">>          \* 'Z(1)': group 1 under another name
ValN == <<"N">>                          \* 'N': no parentheses, does not parse

LogEntry(date, link, action, new, old) ==
    [date_mod |-> date, itemtype_link |-> link, linked_action |-> action,
     new_value |-> new, old_value |-> old]

Times == (TimeBase + 1)..(TimeBase + MaxTime)

\* a ticket's log: Assigns and Unassigns of two groups and entries that are
\* no group event
Entries ==
    UNION {
        {LogEntry(DateStr(t), "Group", GROUP_ASSIGNED_ACTION, v, <<>>) :
            v \in {ValA1, ValB2}}
        \cup {LogEntry(DateStr(t), "Group", GROUP_UNASSIGNED_ACTION, <<>>, v) :
            v \in {ValA1, ValB2}}
        \cup {LogEntry(DateStr(t), "User", GROUP_ASSIGNED_ACTION, ValA1, <<>>)}
        : t \in Times}

LogLists == UNION {[1..n -> Entries] : n \in 0..MaxLen}

\* a log with data-quality anomalies as well: a renamed group, tokens that do
\* not parse, another action code, entries whose new_value and old_value name
\* different groups
DirtyEntries ==
    Entries \cup UNION {
        {LogEntry(DateStr(t), "Group", GROUP_ASSIGNED_ACTION, v, <<>>) :
            v \in {ValZ1, ValN}}
        \cup {LogEntry(DateStr(t), "Group", GROUP_UNASSIGNED_ACTION, <<>>, v) :
            v \in {ValZ1, ValN}}
        \cup {LogEntry(DateStr(t), "Group", GROUP_UNASSIGNED_ACTION + 1, ValA1, ValA1)}
        \cup {LogEntry(DateStr(t), "Group", GROUP_ASSIGNED_ACTION, ValB2, ValA1)}
        \cup {LogEntry(DateStr(t), "Group", GROUP_UNASSIGNED_ACTION, ValA1, ValB2)}
        : t \in Times}

DirtyLogLists == UNION {[1..n -> DirtyEntries] : n \in 0..MaxDirtyLen}

RerunLogLists == UNION {[1..n -> Entries] : n \in 0..MaxRerunLen}

\* logs that GLPI appends to between two analyses: Assigns and Unassigns of
\* group 1, Assigns of group 2
GrowEntries ==
    {e \in Entries : /\ e.itemtype_link = "Group"
                     /\ e.old_value # ValB2}

GrowLogLists == UNION {[1..n -> GrowEntries] : n \in 0..MaxGrowLen}

\* logs of one group: Assigns and Unassigns, several of them of one timestamp
SortEntries ==
    {e \in Entries : e.itemtype_link = "Group" /\ ValB2 \notin {e.new_value, e.old_value}}

SortLogLists == UNION {[1..n -> SortEntries] : n \in 0..MaxSortLen}

\* the characters a group token is made of: a letter, a blank, the
\* parentheses, a digit, a sign, an underscore
TokenAlphabet == {"A", " ", "(", ")", "1", "-", "_"}

Tokens == UNION {[1..n -> TokenAlphabet] : n \in 0..MaxStrLen}

\* logs of one Assign whose new_value is any token
TokenLogLists ==
    {<<LogEntry(DateStr(TimeBase + 1), "Group", GROUP_ASSIGNED_ACTION, v, <<>>)>> :
        v \in Tokens}

\* the clock when the call starts: not behind the newest timestamp a log can
\* hold
ClockStart == TimeBase + MaxTime

\* the clock of a machine that runs behind the log source (date_mod is a naive
\* local time of the server, datetime.now() one of the analysing machine)
SkewedClockStart == TimeBase + 1

(***************************************************************************)
(* State                                                                   *)
(***************************************************************************)
\* mutant: total_duration is not reset when the next group is entered
EnterGroup_KeepsTotal ==
    /\ total_duration' = total_duration
    /\ last_assign_date' = None
    /\ is_assigned' = FALSE
    /\ assignment_periods' = <<>>

\* mutant: the open/closed state is shared by the groups
EnterGroup_KeepsOpenState ==
    /\ total_duration' = 0
    /\ last_assign_date' = last_assign_date
    /\ is_assigned' = is_assigned
    /\ assignment_periods' = <<>>

\* the locals of calculate_time_spent_for_group as main.py:167-170 sets them
EnterGroup ==
    /\ total_duration' = 0
    /\ last_assign_date' = None
    /\ is_assigned' = FALSE
    /\ assignment_periods' = <<>>

\* analyze_multiple_tickets is not running
SessionIdle ==
    /\ mpc = "idle"
    /\ session_token = <<>>
    /\ error = <<>>
    /\ as_token = <<>>
    /\ steps = 0
    /\ exc_type = <<>>
    /\ killed = <<>>
    /\ outcome = "none"

Idle ==
    /\ SessionIdle
    /\ server = <<>>
    /\ ticket_ids = <<>>
    /\ apc = "idle"
    /\ position = 0
    /\ all_tickets_results = <<>>
    /\ group_totals = <<>>
    /\ run = "none"
    /\ first_ids = <<>>
    /\ first_tickets = <<>>
    /\ first_totals = <<>>
    /\ start_id = 0
    /\ end_id = 0
    /\ analysed = <<>>
    /\ reconstructed = <<>>

Start(c) ==
    /\ Idle
    /\ clock = c
    /\ pc = "begin"
    /\ sorted_logs = <<>>
    /\ groups = <<>>
    /\ pending = <<>>
    /\ group_info = None
    /\ idx = 0
    /\ total_duration = 0
    /\ last_assign_date = None
    /\ is_assigned = FALSE
    /\ assignment_periods = <<>>
    /\ results = <<>>
    /\ accepted = <<>>
    /\ nows = <<>>
    /\ calls = 1
    /\ first_results = <<>>
    /\ first_nows = <<>>

Init == logs \in LogLists /\ Start(ClockStart)

InitSkew == logs \in LogLists /\ Start(SkewedClockStart)

InitDirty == logs \in DirtyLogLists /\ Start(ClockStart)

InitSort == logs \in SortLogLists /\ Start(ClockStart)

InitParse == logs \in TokenLogLists /\ Start(ClockStart)

InitRerun == logs \in RerunLogLists /\ Start(ClockStart)

InitGrow == logs \in GrowLogLists /\ Start(ClockStart)

history == <<calls, first_results, first_nows>>
locals == <<group_info, idx, total_duration, last_assign_date, is_assigned,
            assignment_periods, accepted>>

(***************************************************************************)
(* calculate_all_groups_time                                               *)
(***************************************************************************)
\* mutant: logs.sort(...) in place of sorted(logs, ...)
Begin_SortsInPlace ==
    /\ pc = "begin"
    /\ UNCHANGED agg
    /\ logs' = sorted(logs)
    /\ sorted_logs' = logs'
    /\ groups' = get_all_groups_from_logs(sorted_logs')
    /\ pending' = SortedKeys(DOMAIN groups')
    /\ results' = <<>>
    /\ pc' = "loop"
    /\ UNCHANGED <<clock, nows, locals, history>>

\* main.py:234-246: the sorted copy, the groups found in it, the key order of
\* the loop of main.py:247, the empty results
Begin ==
    /\ pc = "begin"
    /\ UNCHANGED agg
    /\ sorted_logs' = sorted(logs)
    /\ groups' = get_all_groups_from_logs(sorted_logs')
    /\ pending' = SortedKeys(DOMAIN groups')
    /\ results' = <<>>
    /\ pc' = "loop"
    /\ UNCHANGED <<logs, clock, nows, locals, history>>

\* main.py:247-249: the next group id, and the entry into
\* calculate_time_spent_for_group (main.py:167-170)
NextGroup ==
    /\ pc = "loop"
    /\ UNCHANGED agg
    /\ pending # <<>>
    /\ group_info' = Some(groups[Head(pending)])
    /\ EnterGroup
    /\ idx' = 1
    /\ accepted' = <<>>
    /\ pc' = "replay"
    /\ UNCHANGED <<logs, clock, sorted_logs, groups, pending, results, nows, history>>

(***************************************************************************)
(* calculate_time_spent_for_group                                          *)
(***************************************************************************)
IsAssignEntry(log) ==
    log.itemtype_link = "Group" /\ log.linked_action = GROUP_ASSIGNED_ACTION

IsUnassignEntry(log) ==
    log.itemtype_link = "Group" /\ log.linked_action = GROUP_UNASSIGNED_ACTION

\* mutant: last-assign-wins, the 'not is_assigned' of main.py:181 dropped
AssignAccepted_LastWins(log, g) ==
    LET assigned_group == extract_group_info_from_value(log.new_value)
    IN  assigned_group # None /\ assigned_group[1].id = g.id

\* mutant: the assigned group is read from old_value
AssignAccepted_FromOldValue(log, g) ==
    LET assigned_group == extract_group_info_from_value(log.old_value)
    IN  assigned_group # None /\ assigned_group[1].id = g.id /\ ~is_assigned

\* mutant: the replay of g opens on the Assign of any group
AssignAccepted_AnyGroup(log, g) ==
    LET assigned_group == extract_group_info_from_value(log.new_value)
    IN  assigned_group # None /\ ~is_assigned

\* the condition of main.py:181
AssignAccepted(log, g) ==
    LET assigned_group == extract_group_info_from_value(log.new_value)
    IN  assigned_group # None /\ assigned_group[1].id = g.id /\ ~is_assigned

\* mutant: the open-interval test of main.py:190 dropped
UnassignAccepted_Unguarded(log, g) ==
    LET unassigned_group == extract_group_info_from_value(log.old_value)
    IN  unassigned_group # None /\ unassigned_group[1].id = g.id

\* mutant: the groups are compared by id and name
UnassignAccepted_ByName(log, g) ==
    LET unassigned_group == extract_group_info_from_value(log.old_value)
    IN  /\ unassigned_group # None
        /\ unassigned_group[1] = g
        /\ is_assigned
        /\ last_assign_date # None

\* the condition of main.py:190
UnassignAccepted(log, g) ==
    LET unassigned_group == extract_group_info_from_value(log.old_value)
    IN  /\ unassigned_group # None
        /\ unassigned_group[1].id = g.id
        /\ is_assigned
        /\ last_assign_date # None

\* mutant: the period an Unassign closes is flagged as still assigned
ClosedPeriod_Flagged(start, end, duration) ==
    [assigned |-> start, unassigned |-> end, duration |-> duration,
     still_assigned |-> TRUE]

\* the dict of main.py:193-197
ClosedPeriod(start, end, duration) ==
    [assigned |-> start, unassigned |-> end, duration |-> duration]

\* mutant: the 'still_assigned' key of main.py:212 left out
OpenPeriod_Unflagged(start, now, duration) ==
    [assigned |-> start, unassigned |-> now, duration |-> duration]

\* the dict of main.py:208-213
OpenPeriod(start, now, duration) ==
    [assigned |-> start, unassigned |-> now, duration |-> duration,
     still_assigned |-> TRUE]

\* one iteration of the loop of main.py:175-201; subtracting None from a
\* datetime (main.py:191) raises TypeError, which ends the call
ReplayStep ==
    /\ pc = "replay"
    /\ UNCHANGED agg
    /\ idx <= Len(sorted_logs)
    /\ LET log == sorted_logs[idx]
           date_mod == parse_glpi_date(log.date_mod)
       IN  IF IsAssignEntry(log) /\ AssignAccepted(log, group_info[1])
           THEN /\ last_assign_date' = Some(date_mod)
                /\ is_assigned' = TRUE
                /\ accepted' = Append(accepted, [kind |-> "Assign", at |-> idx])
                /\ idx' = idx + 1
                /\ UNCHANGED <<pc, total_duration, assignment_periods>>
           ELSE IF ~IsAssignEntry(log) /\ IsUnassignEntry(log)
                   /\ UnassignAccepted(log, group_info[1])
           THEN IF last_assign_date = None
                THEN /\ pc' = "raised"
                     /\ UNCHANGED <<idx, last_assign_date, is_assigned, accepted,
                                    total_duration, assignment_periods>>
                ELSE LET duration == date_mod - last_assign_date[1]
                     IN  /\ total_duration' = total_duration + duration
                         /\ assignment_periods' = Append(assignment_periods,
                                ClosedPeriod(last_assign_date[1], date_mod, duration))
                         /\ is_assigned' = FALSE
                         /\ last_assign_date' = None
                         /\ accepted' = Append(accepted,
                                               [kind |-> "Unassign", at |-> idx])
                         /\ idx' = idx + 1
                         /\ pc' = pc
           ELSE /\ idx' = idx + 1
                /\ UNCHANGED <<pc, last_assign_date, is_assigned, accepted,
                               total_duration, assignment_periods>>
    /\ UNCHANGED <<logs, clock, sorted_logs, groups, pending, group_info,
                   results, nows, history>>

\* main.py:203-217: the group that is still assigned when the log ends
Finalize ==
    /\ pc = "replay"
    /\ UNCHANGED agg
    /\ idx > Len(sorted_logs)
    /\ IF is_assigned /\ last_assign_date # None
       THEN LET now == clock
                duration == now - last_assign_date[1]
            IN  /\ total_duration' = total_duration + duration
                /\ assignment_periods' = Append(assignment_periods,
                       OpenPeriod(last_assign_date[1], now, duration))
                /\ nows' = Append(nows, now)
       ELSE UNCHANGED <<total_duration, assignment_periods, nows>>
    /\ pc' = "store"
    /\ UNCHANGED <<logs, clock, sorted_logs, groups, pending, group_info, idx,
                   last_assign_date, is_assigned, results, accepted, history>>

\* main.py:249-255: the returned tuple becomes the group's entry of results
StoreResult ==
    /\ pc = "store"
    /\ UNCHANGED agg
    /\ results' = (group_info[1].id :>
                      [group_info |-> group_info[1],
                       total_duration |-> total_duration,
                       periods |-> assignment_periods,
                       assignment_count |-> Len(assignment_periods)]) @@ results
    /\ pending' = Tail(pending)
    /\ pc' = "loop"
    /\ UNCHANGED <<logs, clock, sorted_logs, groups, nows, locals, history>>

\* main.py:257
Return ==
    /\ pc = "loop"
    /\ UNCHANGED agg
    /\ pending = <<>>
    /\ pc' = "done"
    /\ first_results' = IF calls = 1 THEN results ELSE first_results
    /\ first_nows' = IF calls = 1 THEN nows ELSE first_nows
    /\ UNCHANGED <<logs, clock, sorted_logs, groups, pending, results, nows,
                   locals, calls>>

\* the wall clock advances by a second; the program reads it at main.py:205
\* only, so its advance shows when a replay that has reached the end of the
\* log is about to read it
Tick ==
    /\ pc = "replay"
    /\ UNCHANGED agg
    /\ idx > Len(sorted_logs)
    /\ is_assigned
    /\ clock < ClockStart + MaxTicks
    /\ clock' = clock + 1
    /\ UNCHANGED <<logs, pc, sorted_logs, groups, pending, results, nows,
                   locals, history>>

\* the caller calls calculate_all_groups_time again with the same list; what
\* lived in the frames of the previous call starts afresh
CallAgain ==
    /\ pc = "done"
    /\ UNCHANGED agg
    /\ calls < MaxCalls
    /\ calls' = calls + 1
    /\ pc' = "begin"
    /\ sorted_logs' = <<>>
    /\ groups' = <<>>
    /\ pending' = <<>>
    /\ results' = <<>>
    /\ nows' = <<>>
    /\ group_info' = None
    /\ idx' = 0
    /\ accepted' = <<>>
    /\ EnterGroup
    /\ UNCHANGED <<logs, clock, first_results, first_nows>>

Next ==
    \/ Begin
    \/ NextGroup
    \/ ReplayStep
    \/ Finalize
    \/ StoreResult
    \/ Return
    \/ Tick

Spec == Init /\ [][Next]_vars

NextRerun == Next \/ CallAgain

\* the entry is not earlier than any entry of the list
NotEarlier(e, ls) ==
    \A k \in 1..Len(ls) : parse_glpi_date(e.date_mod) >= parse_glpi_date(ls[k].date_mod)

\* GLPI appends an entry to the ticket's log, and the log, fetched anew
\* (main.py:310-312), is analysed a second time
CallGrown ==
    /\ pc = "done"
    /\ UNCHANGED agg
    /\ calls = 1
    /\ \E e \in GrowEntries :
        /\ NotEarlier(e, logs)
        /\ logs' = Append(logs, e)
    /\ calls' = calls + 1
    /\ pc' = "begin"
    /\ sorted_logs' = <<>>
    /\ groups' = <<>>
    /\ pending' = <<>>
    /\ results' = <<>>
    /\ nows' = <<>>
    /\ group_info' = None
    /\ idx' = 0
    /\ accepted' = <<>>
    /\ EnterGroup
    /\ UNCHANGED <<clock, first_results, first_nows>>

SpecRerun == InitRerun /\ [][NextRerun]_vars

NextGrow == Next \/ CallGrown

SpecGrow == InitGrow /\ [][NextGrow]_vars

SpecDirty == InitDirty /\ [][Next]_vars

SpecSkew == InitSkew /\ [][Next]_vars

SpecSort == InitSort /\ [][Next]_vars

SpecParse == InitParse /\ [][Next]_vars

(***************************************************************************)
(* Vocabulary of the properties                                            *)
(***************************************************************************)
GroupIds == {1, 2}

\* the timestamp of entry k of the list ls
At(ls, k) == parse_glpi_date(ls[k].date_mod)

\* the group ids a token names: none or one
IdsOf(value) ==
    {info.id : info \in {extract_group_info_from_value(value)[k] :
                             k \in DOMAIN extract_group_info_from_value(value)}}

\* the entry is a well-formed Assign of group g
AssignsGroup(log, g) == IsAssignEntry(log) /\ g \in IdsOf(log.new_value)

\* the entry is a well-formed Unassign of group g
UnassignsGroup(log, g) == IsUnassignEntry(log) /\ g \in IdsOf(log.old_value)

\* the positions of the list ls that hold an Assign, an Unassign of g
AssignsOf(ls, g) == {k \in 1..Len(ls) : AssignsGroup(ls[k], g)}
UnassignsOf(ls, g) == {k \in 1..Len(ls) : UnassignsGroup(ls[k], g)}

Concerns(log, g) == AssignsGroup(log, g) \/ UnassignsGroup(log, g)

Replaying == pc = "replay" /\ idx <= Len(sorted_logs)

\* the group whose replay is running
CurrentId == group_info[1].id

Flagged(p) == "still_assigned" \in DOMAIN p /\ p.still_assigned

(***************************************************************************)
(* C1: when a ticket's log holds, for group g, exactly one well-formed     *)
(* Assign at t1 and one Unassign at t2 with t1 < t2, the call returns for  *)
(* g exactly one period, assigned = t1, unassigned = t2, duration =        *)
(* t2 - t1, without a still_assigned key, whatever else the log holds and  *)
(* in whatever order the log was supplied.                                 *)
(***************************************************************************)
C1_ClosedPair ==
    pc = "done" =>
        \A g \in GroupIds :
            (Cardinality(AssignsOf(logs, g)) = 1
                /\ Cardinality(UnassignsOf(logs, g)) = 1) =>
                \A a \in AssignsOf(logs, g) : \A u \in UnassignsOf(logs, g) :
                    At(logs, a) < At(logs, u) =>
                        /\ g \in DOMAIN results
                        /\ results[g].periods =
                               <<[assigned |-> At(logs, a),
                                  unassigned |-> At(logs, u),
                                  duration |-> At(logs, u) - At(logs, a)]>>

\* reached: the pair was supplied Unassign first, with an event of the other
\* group in the log
C1_Witness ==
    /\ pc = "done"
    /\ \E g \in GroupIds :
        /\ Cardinality(AssignsOf(logs, g)) = 1
        /\ Cardinality(UnassignsOf(logs, g)) = 1
        /\ \E a \in AssignsOf(logs, g) : \E u \in UnassignsOf(logs, g) :
               u < a /\ At(logs, a) < At(logs, u)
        /\ \E h \in GroupIds \ {g} : AssignsOf(logs, h) # {}
        /\ Len(results[g].periods) = 1

(***************************************************************************)
(* C2: when the last event the replay of g acted on is an Assign, the step *)
(* that ends the replay appends exactly one period flagged still_assigned, *)
(* from that Assign's timestamp to the clock reading 'now', and adds       *)
(* now - start to the group's total; no earlier period is flagged.         *)
(***************************************************************************)
C2_LastIsAssign ==
    accepted # <<>> /\ accepted[Len(accepted)].kind = "Assign"

\* C2: the step that ends a replay whose last accepted event is an Assign
\* appends the one still_assigned period [start, now] and adds now - start
C2_StillAssigned ==
    [][(pc = "replay" /\ pc' = "store" /\ C2_LastIsAssign) =>
        LET start == At(sorted_logs, accepted[Len(accepted)].at)
        IN  /\ assignment_periods' = Append(assignment_periods,
                   [assigned |-> start, unassigned |-> clock,
                    duration |-> clock - start, still_assigned |-> TRUE])
            /\ total_duration' = total_duration + (clock - start)
            /\ \A k \in 1..Len(assignment_periods) :
                   ~Flagged(assignment_periods[k])]_vars

\* reached: a closed period, then the period that is still open
C2_Witness ==
    /\ pc = "store"
    /\ C2_LastIsAssign
    /\ Len(assignment_periods) = 2
    /\ Flagged(assignment_periods[2])
    /\ assignment_periods[2].unassigned > assignment_periods[2].assigned

(***************************************************************************)
(* C3: first-assign-wins.  Replaying an Assign of g while g is open        *)
(* changes nothing; and while g is open, its start is the timestamp of the *)
(* first Assign of the run of Assigns of g that no Unassign of g           *)
(* interrupts.                                                             *)
(***************************************************************************)
\* entry k opens the run of Assigns of the current group that reaches idx
C3_RunStart(k) ==
    /\ k < idx
    /\ AssignsGroup(sorted_logs[k], CurrentId)
    /\ \A j \in k..(idx - 1) : ~UnassignsGroup(sorted_logs[j], CurrentId)
    /\ \A j \in 1..(k - 1) :
           AssignsGroup(sorted_logs[j], CurrentId) =>
               \E m \in (j + 1)..(k - 1) : UnassignsGroup(sorted_logs[m], CurrentId)

C3_RunState ==
    pc \in {"replay", "store"} =>
        \A k \in 1..Len(sorted_logs) :
            C3_RunStart(k) =>
                /\ is_assigned
                /\ last_assign_date = Some(At(sorted_logs, k))
                /\ pc = "store" =>
                       /\ assignment_periods # <<>>
                       /\ assignment_periods[Len(assignment_periods)].assigned
                              = At(sorted_logs, k)

C3_DuplicateStep ==
    (Replaying /\ idx' = idx + 1 /\ is_assigned
        /\ AssignsGroup(sorted_logs[idx], CurrentId)) =>
            UNCHANGED <<last_assign_date, is_assigned, assignment_periods,
                        total_duration>>

\* C3: an open group starts at the first Assign of its run, and an Assign of
\* an open group changes nothing
C3_FirstAssignWins == [](C3_RunState) /\ [][C3_DuplicateStep]_vars

\* reached: two Assigns of the group at different times, the group still open
\* with the first one's timestamp
C3_Witness ==
    /\ pc = "replay"
    /\ \E j, k \in 1..Len(sorted_logs) :
        /\ j < k /\ k < idx
        /\ C3_RunStart(j)
        /\ AssignsGroup(sorted_logs[k], CurrentId)
        /\ At(sorted_logs, j) < At(sorted_logs, k)
        /\ last_assign_date = Some(At(sorted_logs, j))

(***************************************************************************)
(* C4: replaying an Unassign of g while g has no open interval appends no  *)
(* period and leaves the total and the open/closed state as they were; no  *)
(* call ends with an exception; and when every event of g in the log is an *)
(* Unassign, g has no periods and a zero total.                            *)
(***************************************************************************)
C4_UnmatchedStep ==
    (Replaying /\ idx' = idx + 1 /\ ~is_assigned
        /\ UnassignsGroup(sorted_logs[idx], CurrentId)) =>
            UNCHANGED <<last_assign_date, is_assigned, assignment_periods,
                        total_duration>>

C4_OnlyUnassigns(g) ==
    /\ \E k \in 1..Len(logs) : UnassignsGroup(logs[k], g)
    /\ \A k \in 1..Len(logs) : ~AssignsGroup(logs[k], g)

C4_NoIntervals ==
    /\ pc # "raised"
    /\ pc = "done" =>
           \A g \in GroupIds :
               (C4_OnlyUnassigns(g) /\ g \in DOMAIN results) =>
                   /\ results[g].periods = <<>>
                   /\ results[g].total_duration = 0

\* C4: an Unassign of a closed group changes nothing, nothing is raised, and
\* a group with only Unassigns has no periods
C4_UnmatchedUnassign == [](C4_NoIntervals) /\ [][C4_UnmatchedStep]_vars

\* reached: a group with nothing but Unassigns next to a group with a period
C4_Witness ==
    /\ pc = "done"
    /\ \E g, h \in DOMAIN results :
        /\ C4_OnlyUnassigns(g)
        /\ results[g].periods = <<>>
        /\ results[h].periods # <<>>

(***************************************************************************)
(* C5: every group's periods, in the result and while they are built, are  *)
(* in chronological order and do not overlap: a period ends no later than  *)
(* the next one starts, and starts no later than the next one starts.      *)
(***************************************************************************)
Chronological(ps) ==
    \A i \in 1..(Len(ps) - 1) :
        /\ ps[i].unassigned <= ps[i + 1].assigned
        /\ ps[i].assigned <= ps[i + 1].assigned

\* C5: consecutive periods of a group are ordered and do not overlap
C5_Chronological ==
    /\ Chronological(assignment_periods)
    /\ \A g \in DOMAIN results : Chronological(results[g].periods)

\* reached: a log supplied out of order gave a group two periods
C5_Witness ==
    /\ pc = "done"
    /\ sorted_logs # logs
    /\ \E g \in DOMAIN results :
        /\ Len(results[g].periods) = 2
        /\ results[g].periods[1].assigned < results[g].periods[2].assigned

(***************************************************************************)
(* C6: total_duration is the sum of the duration fields of the periods,    *)
(* the still-open one included, and assignment_count is their number; the  *)
(* running total of a replay is the sum over the periods built so far.     *)
(***************************************************************************)
RECURSIVE SumDurations(_)
SumDurations(ps) ==
    IF ps = <<>> THEN 0 ELSE Head(ps).duration + SumDurations(Tail(ps))

\* C6: totals are the sums of the durations, counts the numbers of periods
C6_Totals ==
    /\ total_duration = SumDurations(assignment_periods)
    /\ \A g \in DOMAIN results :
        /\ results[g].total_duration = SumDurations(results[g].periods)
        /\ results[g].assignment_count = Len(results[g].periods)

\* reached: one group with a closed period of positive length, the next
\* group with a still-open period of positive length
C6_Witness ==
    /\ pc = "done"
    /\ \E g, h \in DOMAIN results :
        /\ g < h
        /\ Len(results[g].periods) = 1
        /\ ~Flagged(results[g].periods[1])
        /\ results[g].total_duration > 0
        /\ Len(results[h].periods) = 1
        /\ Flagged(results[h].periods[1])
        /\ results[h].total_duration > 0

(***************************************************************************)
(* C7: in a group's periods only the last one can carry still_assigned,    *)
(* and the periods a replay has appended before the log ended (those an    *)
(* Unassign closed) carry none.                                            *)
(***************************************************************************)
OnlyLastFlagged(ps) == \A i \in 1..Len(ps) : Flagged(ps[i]) => i = Len(ps)

\* C7: only a last period is flagged still_assigned; periods closed by an
\* Unassign are not
C7_OnlyLastOpen ==
    /\ OnlyLastFlagged(assignment_periods)
    /\ \A g \in DOMAIN results : OnlyLastFlagged(results[g].periods)
    /\ pc = "replay" =>
           \A i \in 1..Len(assignment_periods) : ~Flagged(assignment_periods[i])

\* reached: a closed period followed by the flagged one
C7_Witness ==
    /\ pc = "done"
    /\ \E g \in DOMAIN results :
        /\ Len(results[g].periods) = 2
        /\ ~Flagged(results[g].periods[1])
        /\ Flagged(results[g].periods[2])

(***************************************************************************)
(* C8: during a replay the group has at most one open interval.  The       *)
(* events the replay acted on are events of the group and alternate        *)
(* Assign, Unassign, Assign, ..., beginning with an Assign; the group is   *)
(* open exactly after an odd number of them; every accepted Unassign       *)
(* closed the interval the Assign before it opened; and is_assigned holds  *)
(* exactly when last_assign_date is set.                                   *)
(***************************************************************************)
C8_Alternates ==
    \A k \in 1..Len(accepted) :
        IF k % 2 = 1
        THEN /\ accepted[k].kind = "Assign"
             /\ AssignsGroup(sorted_logs[accepted[k].at], CurrentId)
        ELSE /\ accepted[k].kind = "Unassign"
             /\ UnassignsGroup(sorted_logs[accepted[k].at], CurrentId)
             /\ accepted[k - 1].at < accepted[k].at
             /\ assignment_periods[k \div 2].assigned
                    = At(sorted_logs, accepted[k - 1].at)
             /\ assignment_periods[k \div 2].unassigned
                    = At(sorted_logs, accepted[k].at)

\* C8: at most one open interval per group at any point of the replay
C8_OneOpenInterval ==
    /\ is_assigned <=> last_assign_date # None
    /\ pc = "replay" =>
        /\ C8_Alternates
        /\ is_assigned <=> Len(accepted) % 2 = 1
        /\ Len(assignment_periods) = Len(accepted) \div 2
        /\ is_assigned =>
               last_assign_date = Some(At(sorted_logs, accepted[Len(accepted)].at))

\* reached: the replay of the second group acted on an Assign, an Unassign
\* and an Assign again
C8_Witness ==
    /\ pc = "replay"
    /\ Len(accepted) = 3
    /\ is_assigned
    /\ CurrentId = 2

(***************************************************************************)
(* C9: all the periods flagged still_assigned in one call's result end at  *)
(* the same 'now', whenever the clock advances during the call.            *)
(***************************************************************************)
OpenEnds(res) ==
    {res[g].periods[i].unassigned :
        <<g, i>> \in {x \in (DOMAIN res) \X (1..(MaxLen + 1)) :
                         /\ x[2] <= Len(res[x[1]].periods)
                         /\ Flagged(res[x[1]].periods[x[2]])}}

\* C9: the still-open periods of one call's result all end at the same 'now'
C9_SingleNow == pc = "done" => Cardinality(OpenEnds(results)) <= 1

(***************************************************************************)
(* C10: a second call on the same log list whose clock readings equal      *)
(* those of the first call returns the same mapping: the same group ids,   *)
(* names, periods, totals and counts; and no step of a call changes the    *)
(* log list it was given.                                                  *)
(***************************************************************************)
Range(f) == {f[k] : k \in DOMAIN f}

C10_SameNow == Cardinality(Range(nows) \cup Range(first_nows)) <= 1

C10_SameResult ==
    (pc = "done" /\ calls > 1 /\ C10_SameNow) => results = first_results

C11_OnlyGroupsWithIntervals ==
    pc = "done" => \A g \in DOMAIN results : results[g].periods # <<>>

(***************************************************************************)
(* C12: the list that is replayed holds the entries of the supplied list   *)
(* in ascending order of timestamp, entries of equal timestamp in the      *)
(* order in which they were supplied; so every reordering of the supplied  *)
(* list that keeps the order among entries of equal timestamp is replayed  *)
(* as the same list.                                                       *)
(***************************************************************************)
\* where entry k of ls belongs: after the earlier entries and after the
\* entries of the same timestamp supplied before it
StableRank(ls, k) ==
    1 + Cardinality({j \in 1..Len(ls) :
                        \/ At(ls, j) < At(ls, k)
                        \/ At(ls, j) = At(ls, k) /\ j < k})

\* the reorderings of ls that keep the order among entries of equal timestamp
TiePreserving(ls) ==
    {[k \in 1..Len(ls) |-> ls[p[k]]] :
        p \in {q \in [1..Len(ls) -> 1..Len(ls)] :
                  /\ \A i, j \in 1..Len(ls) : i # j => q[i] # q[j]
                  /\ \A i, j \in 1..Len(ls) :
                         (i < j /\ At(ls, q[i]) = At(ls, q[j])) => q[i] < q[j]}}

\* C12: the replayed list is the stable ascending sort of the supplied one,
\* whatever the supplied order
C12_StableAscending ==
    pc # "begin" =>
        /\ Len(sorted_logs) = Len(logs)
        /\ \A k \in 1..Len(logs) : sorted_logs[StableRank(logs, k)] = logs[k]
        /\ (pc = "loop" /\ results = <<>>) =>
               \A ls \in TiePreserving(logs) : sorted(ls) = sorted_logs

\* reached: a list supplied newest first with two different entries of the
\* same timestamp
C12_Witness ==
    /\ pc = "done"
    /\ \E i, j, k \in 1..Len(logs) :
        /\ i < j /\ j < k
        /\ At(logs, i) > At(logs, j)
        /\ At(logs, j) = At(logs, k)
        /\ logs[j] # logs[k]
        /\ sorted_logs = <<logs[j], logs[k], logs[i]>>

(***************************************************************************)
(* C15: a call on an empty log, or on a log none of whose entries is a     *)
(* well-formed Assign or Unassign of a group, raises no error and returns  *)
(* the empty mapping.                                                      *)
(***************************************************************************)
\* no entry of the supplied list is a well-formed group event
OnlyIrrelevant == \A k \in 1..Len(logs) : \A g \in GroupIds : ~Concerns(logs[k], g)

C15_EmptyMapping ==
    /\ pc = "raised" => ~OnlyIrrelevant
    /\ pc = "done" => (results = <<>> \/ ~OnlyIrrelevant)

\* reached: a call has returned on the empty log
C15_WitnessEmpty == pc = "done" /\ logs = <<>> /\ results = <<>>

\* reached: a call has returned on a log that holds only an entry of another
\* link type and an entry of another action code, both with a group token
\* that parses
C15_Witness ==
    /\ pc = "done"
    /\ OnlyIrrelevant
    /\ \E i, j \in 1..Len(logs) :
        /\ logs[i].itemtype_link = "User" /\ IdsOf(logs[i].new_value) # {}
        /\ logs[j].itemtype_link = "Group" /\ IdsOf(logs[j].new_value) # {}
    /\ results = <<>>

(***************************************************************************)
(* C16: one iteration of the replay of group g over an entry that is not   *)
(* a 'Group' entry with action 15 whose new_value names g, nor a 'Group'   *)
(* entry with action 16 whose old_value names g, leaves g's open state,    *)
(* periods and total as they were.                                         *)
(***************************************************************************)
C16_IrrelevantStep ==
    /\ Replaying
    /\ idx' = idx + 1
    /\ ~Concerns(sorted_logs[idx], CurrentId)

C16_Classification ==
    [][C16_IrrelevantStep =>
           UNCHANGED <<is_assigned, last_assign_date, assignment_periods,
                       total_duration>>]_vars

\* reached: the replay of an open group g has passed an Unassign whose
\* new_value names g and whose old_value names another group, an entry of
\* another link type and one of another action code naming g, and g is
\* still open
C16_Witness ==
    /\ pc = "replay"
    /\ is_assigned
    /\ assignment_periods = <<>>
    /\ \E k \in 1..(idx - 1) :
        /\ IsUnassignEntry(sorted_logs[k])
        /\ IdsOf(sorted_logs[k].new_value) = {CurrentId}
        /\ IdsOf(sorted_logs[k].old_value) = GroupIds \ {CurrentId}
        /\ accepted = <<[kind |-> "Assign", at |-> k - 1]>>

(***************************************************************************)
(* C17: extract_group_info_from_value yields an identity exactly for a     *)
(* string whose last '(' stands before its last ')' with an integer as the *)
(* trimmed text between the two; the id is that integer, the name the      *)
(* trimmed text before that '('; any other string yields None and nothing  *)
(* is raised.                                                              *)
(***************************************************************************)
\* s without its leading and trailing blanks
RECURSIVE Trimmed(_)
Trimmed(s) ==
    IF s = <<>> THEN <<>>
    ELSE IF s[1] = " " THEN Trimmed(Tail(s))
    ELSE IF s[Len(s)] = " " THEN Trimmed(SubSeq(s, 1, Len(s) - 1))
    ELSE s

\* position i holds the last '(' of v, position j its last ')'
LastParens(v, i, j) ==
    /\ v[i] = "(" /\ \A k \in (i + 1)..Len(v) : v[k] # "("
    /\ v[j] = ")" /\ \A k \in (j + 1)..Len(v) : v[k] # ")"

\* the identities the rule gives the string v: none or one
IdentitiesOf(v) ==
    {GroupInfo(int(Trimmed(SubSeq(v, i + 1, j - 1)))[1], Trimmed(SubSeq(v, 1, i - 1))) :
        <<i, j>> \in {ij \in (1..Len(v)) \X (1..Len(v)) :
                         /\ ij[1] < ij[2]
                         /\ LastParens(v, ij[1], ij[2])
                         /\ int(Trimmed(SubSeq(v, ij[1] + 1, ij[2] - 1))) # None}}

\* the token of the only entry of the log
Token == logs[1].new_value

C17_ParseRule ==
    /\ pc # "raised"
    /\ pc # "begin" =>
           /\ IdentitiesOf(Token) = {groups[g] : g \in DOMAIN groups}
           /\ \A g \in DOMAIN groups : groups[g].id = g

\* reached: a token whose name part holds a parenthesis has been parsed
C17_Witness ==
    /\ pc = "done"
    /\ \E g \in DOMAIN groups :
        /\ g = 1
        /\ \E k \in 1..Len(groups[g].name) : groups[g].name[k] = "("
        /\ Token[1] = " "

\* reached: a token with parentheses but no integer between them has been
\* parsed to no identity
C17_WitnessNone ==
    /\ pc = "done"
    /\ groups = <<>>
    /\ \E i, j \in 1..Len(Token) : i < j /\ LastParens(Token, i, j)

(***************************************************************************)
(* C18: a group is its id.  The mapping a call returns has one entry per   *)
(* id; the name in it is the name in the earliest entry, in replay order,  *)
(* that is a well-formed Assign or Unassign of that id; and an Assign or   *)
(* Unassign of the id under any name opens or closes that one group.       *)
(***************************************************************************)
\* the name under which the entry mentions the group it assigns or unassigns
NameIn(log) ==
    IF IsAssignEntry(log) THEN extract_group_info_from_value(log.new_value)[1].name
    ELSE extract_group_info_from_value(log.old_value)[1].name

\* the first position of ls that is a well-formed event of group g
FirstMention(ls, g) ==
    CHOOSE k \in AssignsOf(ls, g) \cup UnassignsOf(ls, g) :
        \A j \in AssignsOf(ls, g) \cup UnassignsOf(ls, g) : k <= j

C18_FirstSeenName ==
    pc = "done" =>
        \A g \in DOMAIN results :
            /\ results[g].group_info.id = g
            /\ results[g].group_info.name = NameIn(sorted_logs[FirstMention(sorted_logs, g)])

\* an Assign of the id leaves the group open, an Unassign leaves it closed,
\* whatever name the entry carries
C18_AnyNameActs ==
    (Replaying /\ idx' = idx + 1) =>
        /\ AssignsGroup(sorted_logs[idx], CurrentId) => is_assigned'
        /\ UnassignsGroup(sorted_logs[idx], CurrentId) => ~is_assigned'

C18_IdentityById == []C18_FirstSeenName /\ [][C18_AnyNameActs]_vars

\* reached: group 1 was assigned as 'A (1)' and unassigned as 'Z(1)'; the
\* call returned one closed period under the name 'A'
C18_Witness ==
    /\ pc = "done"
    /\ Len(sorted_logs) = 2
    /\ IsAssignEntry(sorted_logs[1]) /\ sorted_logs[1].new_value = ValA1
    /\ IsUnassignEntry(sorted_logs[2]) /\ sorted_logs[2].old_value = ValZ1
    /\ DOMAIN results = {1}
    /\ results[1].group_info = GroupInfo(1, <<"A">>)
    /\ results[1].periods =
           <<ClosedPeriod(At(sorted_logs, 1), At(sorted_logs, 2),
                          At(sorted_logs, 2) - At(sorted_logs, 1))>>

(***************************************************************************)
(* The call as a function of the log list and of the clock readings        *)
(***************************************************************************)
\* the locals of calculate_time_spent_for_group after the Assign branch of
\* main.py:179-185, assigned_group being what the token parsed to
AfterAssign(st, date_mod, assigned_group, g) ==
    IF assigned_group # None /\ assigned_group[1].id = g.id /\ ~st.is_assigned
    THEN [st EXCEPT !.last_assign_date = Some(date_mod), !.is_assigned = TRUE]
    ELSE st

\* the period main.py:191-199 appends and the locals it leaves
Closed(st, date_mod, duration) ==
    [total_duration |-> st.total_duration + duration,
     assignment_periods |->
         Append(st.assignment_periods,
                ClosedPeriod(st.last_assign_date[1], date_mod, duration)),
     is_assigned |-> FALSE,
     last_assign_date |-> None]

\* the locals after the Unassign branch of main.py:188-201
AfterUnassign(st, date_mod, unassigned_group, g) ==
    IF /\ unassigned_group # None
       /\ unassigned_group[1].id = g.id
       /\ st.is_assigned
       /\ st.last_assign_date # None
    THEN Closed(st, date_mod, date_mod - st.last_assign_date[1])
    ELSE st

\* the locals after one iteration of the loop of main.py:175-201 over the
\* entry log, started with the locals st
ReplayOne(st, log, g) ==
    IF IsAssignEntry(log)
    THEN AfterAssign(st, parse_glpi_date(log.date_mod),
                     extract_group_info_from_value(log.new_value), g)
    ELSE IF IsUnassignEntry(log)
    THEN AfterUnassign(st, parse_glpi_date(log.date_mod),
                       extract_group_info_from_value(log.old_value), g)
    ELSE st

\* the locals after the loop has run over the entries ls
RECURSIVE ReplayFrom(_, _, _)
ReplayFrom(st, ls, g) ==
    IF ls = <<>> THEN st
    ELSE ReplayFrom(ReplayOne(st, Head(ls), g), Tail(ls), g)

\* main.py:203-217: the returned pair, the clock reading now at main.py:205
Returned(st, now) ==
    IF st.is_assigned /\ st.last_assign_date # None
    THEN <<st.total_duration + (now - st.last_assign_date[1]),
           Append(st.assignment_periods,
                  OpenPeriod(st.last_assign_date[1], now,
                             now - st.last_assign_date[1]))>>
    ELSE <<st.total_duration, st.assignment_periods>>

\* what calculate_time_spent_for_group(ls, g) returns when the clock reads
\* now at main.py:205
TimeSpent(ls, g, now) ==
    Returned(ReplayFrom([total_duration |-> 0, last_assign_date |-> None,
                         is_assigned |-> FALSE, assignment_periods |-> <<>>],
                        ls, g),
             now)

\* the entry of results main.py:249-255 makes of the returned pair
ResultEntry(g, spent) ==
    [group_info |-> g,
     total_duration |-> spent[1],
     periods |-> spent[2],
     assignment_count |-> Len(spent[2])]

\* the loop of main.py:247-255 over the groups gs found in the sorted list sl
ResultsOf(sl, gs, nowOf) ==
    [g \in DOMAIN gs |-> ResultEntry(gs[g], TimeSpent(sl, gs[g], nowOf[g]))]

\* main.py:238-255 for the sorted list sl
AllGroupsTimeSorted(sl, nowOf) == ResultsOf(sl, get_all_groups_from_logs(sl), nowOf)

\* what calculate_all_groups_time(ls) returns when the clock reads nowOf[g]
\* during the replay of group g
AllGroupsTime(ls, nowOf) == AllGroupsTimeSorted(sorted(ls), nowOf)

(***************************************************************************)
(* C19: an Assign or Unassign entry whose group token does not parse       *)
(* raises nothing and is ignored: the mapping a call returns is the one it *)
(* returns, with the same clock readings, for the log without that entry.  *)
(***************************************************************************)
\* the entry is an Assign or Unassign whose group token names no group
Malformed(log) ==
    \/ IsAssignEntry(log) /\ IdentitiesOf(log.new_value) = {}
    \/ IsUnassignEntry(log) /\ IdentitiesOf(log.old_value) = {}

\* the list ls without its entry k
Without(ls, k) == SubSeq(ls, 1, k - 1) \o SubSeq(ls, k + 1, Len(ls))

\* the clock reading that ended the open period of group g in the mapping res
ReadingsOf(res) ==
    [g \in GroupIds \cup {0} |->
        IF g \in DOMAIN res /\ res[g].periods # <<>>
        THEN res[g].periods[Len(res[g].periods)].unassigned
        ELSE clock]

C19_MalformedIgnored ==
    /\ pc # "raised"
    /\ pc = "done" =>
           /\ results = AllGroupsTime(logs, ReadingsOf(results))
           /\ \A k \in 1..Len(logs) :
                  Malformed(logs[k]) =>
                      results = AllGroupsTime(Without(logs, k), ReadingsOf(results))

\* reached: a call has returned on a log in which a malformed Unassign
\* follows the Assign of group 1, and group 1 is still assigned
C19_Witness ==
    /\ pc = "done"
    /\ Len(logs) = 2
    /\ AssignsGroup(logs[1], 1)
    /\ IsUnassignEntry(logs[2]) /\ Malformed(logs[2])
    /\ At(logs, 1) < At(logs, 2)
    /\ DOMAIN results = {1}
    /\ Len(results[1].periods) = 1
    /\ Flagged(results[1].periods[1])

\* reached: a call has returned on a log that holds a malformed Assign
C19_WitnessAssign ==
    /\ pc = "done"
    /\ \E k \in 1..Len(logs) : IsAssignEntry(logs[k]) /\ Malformed(logs[k])
    /\ results # <<>>

(***************************************************************************)
(* C20: every period of every group, the periods under construction and    *)
(* the stored ones, the still-open one included, ends at or after its      *)
(* start and has a non-negative duration.                                  *)
(***************************************************************************)
NonNegative(periods) ==
    \A k \in 1..Len(periods) :
        periods[k].unassigned >= periods[k].assigned /\ periods[k].duration >= 0

C20_NonNegativeDurations ==
    /\ NonNegative(assignment_periods)
    /\ \A g \in DOMAIN results : NonNegative(results[g].periods)

(***************************************************************************)
(* analyze_multiple_tickets: the per-ticket mappings folded into totals    *)
(* per group.  The clock is taken not to advance while one run over the    *)
(* tickets lasts; it may advance between two runs.                         *)
(***************************************************************************)
TicketIds == 1..MaxTickets

\* the entries of the tickets that are aggregated: group 1 assigned as
\* 'A (1)' and unassigned, a second later, as 'Z(1)'; group 2 assigned
AggEntries ==
    {LogEntry(DateStr(TimeBase + 1), "Group", GROUP_ASSIGNED_ACTION, ValA1, <<>>),
     LogEntry(DateStr(TimeBase + 2), "Group", GROUP_UNASSIGNED_ACTION, <<>>, ValZ1),
     LogEntry(DateStr(TimeBase + 1), "Group", GROUP_ASSIGNED_ACTION, ValB2, <<>>)}

AggLogLists == UNION {[1..n -> AggEntries] : n \in 0..MaxAggLen}

\* the (logs, error) pairs get_ticket_subitems returns: a log, or an error
Fetched ==
    {[logs |-> ls, error |-> None] : ls \in AggLogLists}
    \cup {[logs |-> None, error |-> Some("HTTP 404")]}

\* the orders in which the tickets can be listed
Orders ==
    {o \in [1..MaxTickets -> TicketIds] :
        \A i, j \in 1..MaxTickets : i # j => o[i] # o[j]}

\* list(range(1, MaxTickets + 1)) of main.py:432
AscendingIds == [k \in 1..MaxTickets |-> k]

\* mutant: list(range(start, end)), the end left out
RangeIds_Exclusive(start, end) == [k \in 1..(end - start) |-> start + k - 1]

\* list(range(start, end + 1)) of main.py:432
RangeIds(start, end) == [k \in 1..(end + 1 - start) |-> start + k - 1]

\* mutant: the log is handed on whatever the fetch reported
Reconstructs_Always(ticket_id) == TRUE

\* main.py:314-318: line 318 is reached unless the fetch reported an error
Reconstructs(ticket_id) == server[ticket_id].error = None

\* main.py:310-318: {} on a fetch error, else the mapping of the ticket's log
analyze_all_groups_time(ticket_id) ==
    IF ~Reconstructs(ticket_id) THEN <<>>
    ELSE AllGroupsTime(server[ticket_id].logs, [g \in GroupIds |-> clock])

\* the value of the defaultdict of main.py:359-364 for a new key
DefaultTotals ==
    [total_duration |-> 0, ticket_count |-> 0, assignment_count |-> 0,
     group_info |-> None]

\* mutant: total_duration is assigned, not added to
AddTicket_Overwrite(totals, res) ==
    [g \in DOMAIN totals \cup DOMAIN res |->
        IF g \in DOMAIN res
        THEN LET old == IF g \in DOMAIN totals THEN totals[g] ELSE DefaultTotals
             IN  [total_duration |-> res[g].total_duration,
                  ticket_count |-> old.ticket_count + 1,
                  assignment_count |-> old.assignment_count + res[g].assignment_count,
                  group_info |-> IF old.group_info = None
                                 THEN Some(res[g].group_info)
                                 ELSE old.group_info]
        ELSE totals[g]]

\* mutant: group_info is set by every ticket
AddTicket_LastName(totals, res) ==
    [g \in DOMAIN totals \cup DOMAIN res |->
        IF g \in DOMAIN res
        THEN LET old == IF g \in DOMAIN totals THEN totals[g] ELSE DefaultTotals
             IN  [total_duration |-> old.total_duration + res[g].total_duration,
                  ticket_count |-> old.ticket_count + 1,
                  assignment_count |-> old.assignment_count + res[g].assignment_count,
                  group_info |-> Some(res[g].group_info)]
        ELSE totals[g]]

\* the loop of main.py:380-385 over the mapping res of one ticket
AddTicket(totals, res) ==
    [g \in DOMAIN totals \cup DOMAIN res |->
        IF g \in DOMAIN res
        THEN LET old == IF g \in DOMAIN totals THEN totals[g] ELSE DefaultTotals
             IN  [total_duration |-> old.total_duration + res[g].total_duration,
                  ticket_count |-> old.ticket_count + 1,
                  assignment_count |-> old.assignment_count + res[g].assignment_count,
                  group_info |-> IF old.group_info = None
                                 THEN Some(res[g].group_info)
                                 ELSE old.group_info]
        ELSE totals[g]]

\* the call variables while only analyze_multiple_tickets is looked at
call == <<logs, pc, sorted_logs, groups, pending, results, nows, locals, history>>

\* analyze_ticket_range has called analyze_multiple_tickets (main.py:432-435,
\* 358-364)
InitAgg ==
    /\ logs = <<>>
    /\ clock = ClockStart
    /\ pc = "begin"
    /\ sorted_logs = <<>> /\ groups = <<>> /\ pending = <<>> /\ results = <<>>
    /\ group_info = None /\ idx = 0 /\ accepted = <<>> /\ nows = <<>>
    /\ total_duration = 0 /\ last_assign_date = None
    /\ is_assigned = FALSE /\ assignment_periods = <<>>
    /\ calls = 1 /\ first_results = <<>> /\ first_nows = <<>>
    /\ server \in [TicketIds -> Fetched]
    /\ ticket_ids = AscendingIds
    /\ apc = "fold"
    /\ position = 1
    /\ all_tickets_results = <<>>
    /\ group_totals = <<>>
    /\ run = "first"
    /\ first_ids = <<>>
    /\ first_tickets = <<>>
    /\ first_totals = <<>>
    /\ start_id = 1
    /\ end_id = MaxTickets
    /\ analysed = <<>>
    /\ reconstructed = <<>>
    /\ SessionIdle

\* main.py:376-386: the mapping res of ticket ticket_id is kept and folded
\* in, unless it is empty
Folded(ticket_id, res) ==
    IF res # <<>>
    THEN /\ all_tickets_results' = (ticket_id :> res) @@ all_tickets_results
         /\ group_totals' = AddTicket(group_totals, res)
    ELSE UNCHANGED <<all_tickets_results, group_totals>>

\* one iteration of the loop of main.py:370-386
AnalyzeTicket ==
    /\ apc = "fold"
    /\ position <= Len(ticket_ids)
    /\ Folded(ticket_ids[position], analyze_all_groups_time(ticket_ids[position]))
    /\ position' = position + 1
    /\ analysed' = Append(analysed, ticket_ids[position])
    /\ reconstructed' = IF Reconstructs(ticket_ids[position])
                        THEN Append(reconstructed, ticket_ids[position])
                        ELSE reconstructed
    /\ UNCHANGED <<server, ticket_ids, apc, run, first_ids, first_tickets,
                   first_totals, start_id, end_id, clock, call, session>>

\* main.py:407
ReturnAll ==
    /\ apc = "fold"
    /\ position > Len(ticket_ids)
    /\ apc' = "returned"
    /\ first_ids' = IF run = "first" THEN ticket_ids ELSE first_ids
    /\ first_tickets' = IF run = "first" THEN all_tickets_results ELSE first_tickets
    /\ first_totals' = IF run = "first" THEN group_totals ELSE first_totals
    /\ UNCHANGED <<server, ticket_ids, position, all_tickets_results,
                   group_totals, run, driver, clock, call,
                   session>>

\* the wall clock advances by a second between two runs
Wait ==
    /\ apc = "returned"
    /\ run = "first"
    /\ clock < ClockStart + MaxTicks
    /\ clock' = clock + 1
    /\ UNCHANGED <<agg, call>>

\* analyze_multiple_tickets is called on the same tickets listed in any order
\* (main.py:358-364 again)
AnalyzeAgain ==
    /\ apc = "returned"
    /\ run = "first"
    /\ ticket_ids' \in Orders
    /\ apc' = "fold"
    /\ position' = 1
    /\ all_tickets_results' = <<>>
    /\ group_totals' = <<>>
    /\ run' = "second"
    /\ analysed' = <<>>
    /\ reconstructed' = <<>>
    /\ UNCHANGED <<server, first_ids, first_tickets, first_totals, start_id,
                   end_id, clock, call, session>>

NextAgg ==
    \/ AnalyzeTicket
    \/ ReturnAll
    \/ Wait
    \/ AnalyzeAgain

SpecAgg == InitAgg /\ [][NextAgg]_vars

\* analyze_ticket_range(start_id, end_id) has called analyze_multiple_tickets
\* with list(range(start_id, end_id + 1)) (main.py:432-435, 358-364)
InitRange ==
    /\ logs = <<>>
    /\ clock = ClockStart
    /\ pc = "begin"
    /\ sorted_logs = <<>> /\ groups = <<>> /\ pending = <<>> /\ results = <<>>
    /\ group_info = None /\ idx = 0 /\ accepted = <<>> /\ nows = <<>>
    /\ total_duration = 0 /\ last_assign_date = None
    /\ is_assigned = FALSE /\ assignment_periods = <<>>
    /\ calls = 1 /\ first_results = <<>> /\ first_nows = <<>>
    /\ server \in [TicketIds -> Fetched]
    /\ start_id \in TicketIds
    /\ end_id \in 0..MaxTickets
    /\ ticket_ids = RangeIds(start_id, end_id)
    /\ apc = "fold"
    /\ position = 1
    /\ all_tickets_results = <<>>
    /\ group_totals = <<>>
    /\ run = "first"
    /\ first_ids = <<>>
    /\ first_tickets = <<>>
    /\ first_totals = <<>>
    /\ analysed = <<>>
    /\ reconstructed = <<>>
    /\ SessionIdle

NextRange ==
    \/ AnalyzeTicket
    \/ ReturnAll

SpecRange == InitRange /\ [][NextRange]_vars

(***************************************************************************)
(* main and its GLPISession                                                *)
(***************************************************************************)
\* the session tokens GLPI hands out: strings of one character or more
SessionTokens == UNION {[1..n -> {"s"}] : n \in 1..MaxTokenLen}

\* what authenticate_glpi returns (glpi_methods.py:61-73): data.get(
\* 'session_token') and no error, where the value is a token, the empty
\* string, or None when the key is missing; or None and a message
AuthReturns ==
    {<<Some(t), None>> : t \in SessionTokens \cup {<<>>}}
    \cup {<<None, None>>}
    \cup {<<None, Some(m)>> : m \in {"Request failed", "Invalid response",
                                     "Invalid GLPI response format"}}

\* the exceptions a statement of the with body may raise: one that
\* 'except ConnectionError' catches, one that 'except Exception' catches, one
\* that neither catches
BodyExceptions == {"ConnectionError", "OSError", "KeyboardInterrupt"}

\* Python's truth value of an Optional[str]: None and '' are false
Truthy(token) == token # None /\ token[1] # <<>>

\* main.py:478: GLPISession(...) has been constructed (main.py:53-58)
InitSession ==
    /\ logs = <<>>
    /\ clock = ClockStart
    /\ pc = "begin"
    /\ sorted_logs = <<>> /\ groups = <<>> /\ pending = <<>> /\ results = <<>>
    /\ group_info = None /\ idx = 0 /\ accepted = <<>> /\ nows = <<>>
    /\ total_duration = 0 /\ last_assign_date = None
    /\ is_assigned = FALSE /\ assignment_periods = <<>>
    /\ calls = 1 /\ first_results = <<>> /\ first_nows = <<>>
    /\ server = <<>>
    /\ ticket_ids = <<>>
    /\ apc = "idle"
    /\ position = 0
    /\ all_tickets_results = <<>>
    /\ group_totals = <<>>
    /\ run = "none"
    /\ first_ids = <<>>
    /\ first_tickets = <<>>
    /\ first_totals = <<>>
    /\ start_id = 0
    /\ end_id = 0
    /\ analysed = <<>>
    /\ reconstructed = <<>>
    /\ mpc = "enter"
    /\ session_token = None
    /\ error = None
    /\ as_token = None
    /\ steps = 0
    /\ exc_type = None
    /\ killed = <<>>
    /\ outcome = "none"

\* GLPISession.__enter__ (main.py:60-69): authenticate_glpi returns; without a
\* token ConnectionError is raised, and __exit__ is not called for a with
\* statement whose __enter__ raised
Enter ==
    /\ mpc = "enter"
    /\ \E r \in AuthReturns :
        /\ session_token' = r[1]
        /\ error' = r[2]
        /\ IF ~Truthy(r[1])
           THEN /\ exc_type' = Some("ConnectionError")
                /\ mpc' = "except"
                /\ as_token' = as_token
           ELSE /\ as_token' = r[1]
                /\ mpc' = "body"
                /\ exc_type' = exc_type
    /\ UNCHANGED <<steps, killed, outcome, analysis, clock, call>>

\* authenticate_glpi itself raises: the reply is JSON but not an object, and
\* data.get (glpi_methods.py:65) raises AttributeError, which none of its
\* except clauses catches
EnterRaises ==
    /\ mpc = "enter"
    /\ exc_type' = Some("AttributeError")
    /\ mpc' = "except"
    /\ UNCHANGED <<session_token, error, as_token, steps, killed, outcome,
                   analysis, clock, call>>

\* one statement of the with body (main.py:479-507) runs to its end
BodyStep ==
    /\ mpc = "body"
    /\ steps < MaxBodySteps
    /\ steps' = steps + 1
    /\ UNCHANGED <<mpc, session_token, error, as_token, exc_type, killed,
                   outcome, analysis, clock, call>>

\* a statement of the with body raises
BodyRaises ==
    /\ mpc = "body"
    /\ steps < MaxBodySteps
    /\ exc_type' \in {Some(x) : x \in BodyExceptions}
    /\ mpc' = "exit"
    /\ UNCHANGED <<session_token, error, as_token, steps, killed, outcome,
                   analysis, clock, call>>

\* the last statement of the with body has run
BodyEnds ==
    /\ mpc = "body"
    /\ steps = MaxBodySteps
    /\ mpc' = "exit"
    /\ UNCHANGED <<session_token, error, as_token, steps, exc_type, killed,
                   outcome, analysis, clock, call>>

\* mutant: the session is closed only when the body ended without an exception
ExitKills_UnlessRaised(token, exc) == Truthy(token) /\ exc = None

\* the test of main.py:72
ExitKills(token, exc) == Truthy(token)

\* GLPISession.__exit__ (main.py:71-73): kill_session returns whether the
\* request succeeded or not (glpi_methods.py:100-106), and __exit__ returns
\* None, so an exception of the body goes on propagating
Exit ==
    /\ mpc = "exit"
    /\ IF ExitKills(session_token, exc_type)
       THEN \E success \in BOOLEAN :
                killed' = Append(killed, [session_token |-> session_token[1],
                                          success |-> success])
       ELSE killed' = killed
    /\ mpc' = IF exc_type = None THEN "end" ELSE "except"
    /\ outcome' = IF exc_type = None THEN "exported" ELSE outcome
    /\ UNCHANGED <<session_token, error, as_token, steps, exc_type, analysis,
                   clock, call>>

\* the except clauses of main (main.py:509-512); an exception that is not an
\* Exception leaves main
Except ==
    /\ mpc = "except"
    /\ outcome' = IF exc_type = Some("ConnectionError") THEN "Connection error"
                  ELSE IF exc_type = Some("KeyboardInterrupt") THEN "propagated"
                  ELSE "Unexpected error"
    /\ mpc' = "end"
    /\ UNCHANGED <<session_token, error, as_token, steps, exc_type, killed,
                   analysis, clock, call>>

NextSession ==
    \/ Enter
    \/ EnterRaises
    \/ BodyStep
    \/ BodyRaises
    \/ BodyEnds
    \/ Exit
    \/ Except

SpecSession == InitSession /\ [][NextSession]_vars

(***************************************************************************)
(* C13: two runs of analyze_multiple_tickets over the same tickets, listed *)
(* in any two orders, whose per-ticket mappings are the same, end with the *)
(* same groups and, for every group, the same total_duration, ticket_count *)
(* and assignment_count.                                                   *)
(***************************************************************************)
SecondRunReturned == apc = "returned" /\ run = "second"

C13_SameTotals ==
    /\ DOMAIN group_totals = DOMAIN first_totals
    /\ \A g \in DOMAIN group_totals :
        /\ group_totals[g].total_duration = first_totals[g].total_duration
        /\ group_totals[g].ticket_count = first_totals[g].ticket_count
        /\ group_totals[g].assignment_count = first_totals[g].assignment_count

C13_OrderIndependent ==
    (SecondRunReturned /\ all_tickets_results = first_tickets) => C13_SameTotals

\* reached: the second run listed the tickets in another order, the tickets
\* gave the mappings they gave before, and a group that two tickets mention
\* under different names has the same non-zero total under another name
C13_Witness ==
    /\ SecondRunReturned
    /\ ticket_ids # first_ids
    /\ all_tickets_results = first_tickets
    /\ \E g \in DOMAIN group_totals :
        /\ group_totals[g].ticket_count = 2
        /\ group_totals[g].total_duration > 0
        /\ group_totals[g].total_duration = first_totals[g].total_duration
        /\ group_totals[g].group_info # first_totals[g].group_info

(***************************************************************************)
(* C14: after every ticket folded in, the mapping of that ticket is kept   *)
(* unless it is empty, and each group's aggregate is built from the kept   *)
(* mappings: total_duration and                *)
(* assignment_count are the sums of the per-ticket values, the latter the  *)
(* sum of the period counts, ticket_count is the number of tickets whose   *)
(* mapping holds the group, and group_info is the one of the first         *)
(* processed such ticket.                                                  *)
(***************************************************************************)
Processed == {ticket_ids[k] : k \in 1..(position - 1)}

\* the processed tickets whose mapping holds group g
Appears(g) == {t \in DOMAIN all_tickets_results : g \in DOMAIN all_tickets_results[t]}

\* the sum over the tickets T of the field of group g's entry
RECURSIVE SumField(_, _, _)
SumField(T, g, field) ==
    IF T = {} THEN 0
    ELSE LET t == CHOOSE x \in T : TRUE
         IN  all_tickets_results[t][g][field] + SumField(T \ {t}, g, field)

\* the sum over the tickets T of the number of periods of group g
RECURSIVE SumPeriods(_, _)
SumPeriods(T, g) ==
    IF T = {} THEN 0
    ELSE LET t == CHOOSE x \in T : TRUE
         IN  Len(all_tickets_results[t][g].periods) + SumPeriods(T \ {t}, g)

\* the first ticket in processing order whose mapping holds group g
FirstTicket(g) ==
    ticket_ids[CHOOSE k \in 1..Len(ticket_ids) :
                   /\ ticket_ids[k] \in Appears(g)
                   /\ \A j \in 1..(k - 1) : ticket_ids[j] \notin Appears(g)]

\* what is kept of the ticket folded in last
C14_KeptMappings ==
    /\ DOMAIN all_tickets_results \subseteq Processed
    /\ (apc = "fold" /\ position > 1) =>
           all_tickets_results =
               (ticket_ids[position - 1] :> analyze_all_groups_time(ticket_ids[position - 1]))
               @@ all_tickets_results
           \/ /\ ticket_ids[position - 1] \notin DOMAIN all_tickets_results
              /\ analyze_all_groups_time(ticket_ids[position - 1]) = <<>>

C14_Aggregates ==
    apc \in {"fold", "returned"} =>
        /\ C14_KeptMappings
        /\ DOMAIN group_totals = UNION {DOMAIN all_tickets_results[t] :
                                           t \in DOMAIN all_tickets_results}
        /\ \A g \in DOMAIN group_totals :
            /\ group_totals[g].total_duration = SumField(Appears(g), g, "total_duration")
            /\ group_totals[g].assignment_count = SumField(Appears(g), g, "assignment_count")
            /\ group_totals[g].assignment_count = SumPeriods(Appears(g), g)
            /\ group_totals[g].ticket_count = Cardinality(Appears(g))
            /\ group_totals[g].group_info =
                   Some(all_tickets_results[FirstTicket(g)][g].group_info)

\* reached: a run that lists the tickets in descending order has returned; a
\* group that two tickets mention under different names carries the name of
\* the ticket processed first and counts both tickets
C14_Witness ==
    /\ apc = "returned"
    /\ ticket_ids[1] > ticket_ids[2]
    /\ \E g \in DOMAIN group_totals :
        /\ Appears(g) = {ticket_ids[1], ticket_ids[2]}
        /\ all_tickets_results[ticket_ids[1]][g].group_info.name
               # all_tickets_results[ticket_ids[2]][g].group_info.name
        /\ group_totals[g].group_info = Some(all_tickets_results[ticket_ids[1]][g].group_info)
        /\ group_totals[g].ticket_count = 2
        /\ group_totals[g].assignment_count = 1

(***************************************************************************)
(* C21: a ticket whose log fetch fails is not handed to                    *)
(* calculate_all_groups_time, leaves the kept per-ticket mappings and the  *)
(* totals as they were, and the loop goes on: a run that has returned has  *)
(* analysed every ticket of its list.                                      *)
(***************************************************************************)
FetchFailed(t) == server[t].error # None

\* the loop is about to analyse a ticket whose fetch fails
C21_FailedNext ==
    apc = "fold" /\ position <= Len(ticket_ids) /\ FetchFailed(ticket_ids[position])

C21_SkipStep ==
    C21_FailedNext =>
        /\ UNCHANGED <<all_tickets_results, group_totals, reconstructed>>
        /\ analysed' = Append(analysed, ticket_ids[position])
        /\ position' = position + 1
        /\ apc' = "fold"

C21_NeverReconstructed ==
    /\ \A k \in 1..Len(reconstructed) : ~FetchFailed(reconstructed[k])
    /\ \A t \in DOMAIN all_tickets_results : ~FetchFailed(t)
    /\ apc = "returned" => analysed = ticket_ids

C22_AscendingPrefix ==
    /\ Len(analysed) = position - 1
    /\ \A k \in 1..Len(analysed) : analysed[k] = start_id + k - 1
    /\ \A k \in 1..Len(analysed) : analysed[k] <= end_id

C22_WitnessEmpty ==
    /\ apc = "returned"
    /\ start_id > end_id
    /\ analysed = <<>>

(***************************************************************************)
(* The single-pass fold the replay is compared with: one pass over the     *)
(* sorted entries, a map from group id to the start of its open interval   *)
(* (or none) and the intervals closed so far, and one 'now' that closes    *)
(* what is still open at the end.                                          *)
(***************************************************************************)
Interval(start, end, stillOpen) ==
    [start |-> start, end |-> end, stillOpen |-> stillOpen]

NoState == [openStart |-> None, intervals |-> <<>>]

StateOf(m, g) == IF g \in DOMAIN m THEN m[g] ELSE NoState

Put(m, g, st) == [h \in (DOMAIN m) \cup {g} |-> IF h = g THEN st ELSE m[h]]

FoldAssign(m, g, st, t) ==
    IF st.openStart = None
    THEN Put(m, g, [st EXCEPT !.openStart = Some(t)])
    ELSE m

FoldUnassign(m, g, st, t) ==
    IF st.openStart # None
    THEN Put(m, g, [openStart |-> None,
                    intervals |-> Append(st.intervals,
                                         Interval(st.openStart[1], t, FALSE))])
    ELSE m

FoldOn(m, log, info, t) ==
    IF info = None THEN m
    ELSE IF IsAssignEntry(log)
         THEN FoldAssign(m, info[1].id, StateOf(m, info[1].id), t)
         ELSE FoldUnassign(m, info[1].id, StateOf(m, info[1].id), t)

\* an Assign names its group in new_value, an Unassign in old_value
FoldEvent(m, log) ==
    IF IsAssignEntry(log)
    THEN FoldOn(m, log, extract_group_info_from_value(log.new_value),
                parse_glpi_date(log.date_mod))
    ELSE IF IsUnassignEntry(log)
    THEN FoldOn(m, log, extract_group_info_from_value(log.old_value),
                parse_glpi_date(log.date_mod))
    ELSE m

RECURSIVE FoldFrom(_, _, _)
FoldFrom(ls, k, m) ==
    IF k > Len(ls) THEN m ELSE FoldFrom(ls, k + 1, FoldEvent(m, ls[k]))

FoldClose(st, now) ==
    IF st.openStart = None THEN st.intervals
    ELSE Append(st.intervals, Interval(st.openStart[1], now, TRUE))

\* the intervals of every group the fold has a state for
FoldIntervals(ls, now) ==
    LET m == FoldFrom(ls, 1, <<>>)
    IN  [g \in DOMAIN m |-> FoldClose(m[g], now)]

IntervalsIn(f, g) == IF g \in DOMAIN f THEN f[g] ELSE <<>>

RECURSIVE SumSpans(_)
SumSpans(is) ==
    IF is = <<>> THEN 0
    ELSE (Head(is).end - Head(is).start) + SumSpans(Tail(is))

\* a period of the result, read as an interval
AsInterval(p) == Interval(p.assigned, p.unassigned, Flagged(p))

PeriodsIn(res, g) == IF g \in DOMAIN res THEN res[g].periods ELSE <<>>
TotalIn(res, g) == IF g \in DOMAIN res THEN res[g].total_duration ELSE 0
CountIn(res, g) == IF g \in DOMAIN res THEN res[g].assignment_count ELSE 0

SameAsFold(res, f, g) ==
    /\ [k \in 1..Len(PeriodsIn(res, g)) |-> AsInterval(PeriodsIn(res, g)[k])]
         = IntervalsIn(f, g)
    /\ TotalIn(res, g) = SumSpans(IntervalsIn(f, g))
    /\ CountIn(res, g) = Len(IntervalsIn(f, g))

OneReading == Cardinality(Range(nows)) = 1

C23_SameAsFold ==
    (pc = "done" /\ OneReading) =>
        LET f == FoldIntervals(sorted_logs, nows[1])
        IN  \A g \in GroupIds : SameAsFold(results, f, g)

\* an entry that names another group only leaves the running replay as it is
C23_OtherGroupStep ==
    (/\ Replaying
     /\ ~Concerns(sorted_logs[idx], CurrentId)
     /\ \E h \in GroupIds \ {CurrentId} : Concerns(sorted_logs[idx], h))
    => /\ idx' = idx + 1
       /\ UNCHANGED <<assignment_periods, is_assigned, last_assign_date,
                      total_duration>>

AcceptedAssigns == {k \in DOMAIN accepted : accepted[k].kind = "Assign"}

\* the positions in the replay strictly between a and u with an Unassign of g
UnassignsInside(g, a, u) ==
    {j \in (a + 1)..(u - 1) : UnassignsGroup(sorted_logs[j], g)}

AnchoredClosed(p, g, a, u) ==
    /\ AssignsGroup(sorted_logs[a], g)
    /\ UnassignsGroup(sorted_logs[u], g)
    /\ a < u
    /\ p.assigned = At(sorted_logs, a)
    /\ p.unassigned = At(sorted_logs, u)
    /\ UnassignsInside(g, a, u) = {}

AnchoredOpen(p, g, a) ==
    /\ AssignsGroup(sorted_logs[a], g)
    /\ p.assigned = At(sorted_logs, a)
    /\ UnassignsInside(g, a, Len(sorted_logs) + 1) = {}

C25_AnchoredMaximal ==
    pc = "store" =>
        /\ Len(assignment_periods) = Cardinality(AcceptedAssigns)
        /\ \A k \in 1..Len(assignment_periods) :
            /\ 2 * k - 1 \in AcceptedAssigns
            /\ IF Flagged(assignment_periods[k])
               THEN /\ k = Len(assignment_periods)
                    /\ Len(accepted) = 2 * k - 1
                    /\ AnchoredOpen(assignment_periods[k], CurrentId,
                                    accepted[2 * k - 1].at)
               ELSE /\ 2 * k <= Len(accepted)
                    /\ accepted[2 * k].kind = "Unassign"
                    /\ AnchoredClosed(assignment_periods[k], CurrentId,
                                      accepted[2 * k - 1].at,
                                      accepted[2 * k].at)

\* a closed period of group 1, opened as 'A (1)' and closed as 'Z(1)'
C25_Witness ==
    /\ pc = "store"
    /\ CurrentId = 1
    /\ Len(assignment_periods) = 1
    /\ ~Flagged(assignment_periods[1])
    /\ Len(accepted) = 2
    /\ sorted_logs[accepted[1].at].new_value = ValA1
    /\ sorted_logs[accepted[2].at].old_value = ValZ1
    /\ assignment_periods[1].assigned < assignment_periods[1].unassigned

\* a period still open when the log ends
C25_WitnessOpen ==
    /\ pc = "store"
    /\ Len(sorted_logs) = 2
    /\ Len(assignment_periods) = 1
    /\ Flagged(assignment_periods[1])
    /\ accepted = <<[kind |-> "Assign", at |-> 1]>>

(***************************************************************************)
(* C24: when a log is extended by an entry that is not earlier than any of *)
(* its entries, the analysis of the extended log keeps, for every group,   *)
(* the closed periods of the analysis of the log as a prefix of its        *)
(* periods; only a last period that was still open is replaced, by a       *)
(* closed or a still-open period with the same start.                      *)
(***************************************************************************)
Resumes(old, new) ==
    /\ Len(old) <= Len(new)
    /\ \A k \in 1..Len(old) :
        IF Flagged(old[k])
        THEN k = Len(old) /\ new[k].assigned = old[k].assigned
        ELSE new[k] = old[k]

GrownReturned == pc = "done" /\ calls = 2

C24_Resumable ==
    GrownReturned =>
        \A g \in DOMAIN first_results :
            /\ g \in DOMAIN results
            /\ Resumes(first_results[g].periods, results[g].periods)

\* a closed period is kept and a new period follows it
C24_Witness ==
    /\ GrownReturned
    /\ 1 \in DOMAIN first_results
    /\ Len(first_results[1].periods) = 1
    /\ ~Flagged(first_results[1].periods[1])
    /\ Len(results[1].periods) = 2
    /\ results[1].periods[1] = first_results[1].periods[1]

\* a period that was still open is closed by the appended Unassign
C24_WitnessClosed ==
    /\ GrownReturned
    /\ 1 \in DOMAIN first_results
    /\ Len(first_results[1].periods) = 1
    /\ Flagged(first_results[1].periods[1])
    /\ Len(results[1].periods) = 1
    /\ ~Flagged(results[1].periods[1])
    /\ results[1].periods[1].assigned = first_results[1].periods[1].assigned

(***************************************************************************)
(* C26: the body of the with statement of main runs only with the token    *)
(* authenticate_glpi returned; when authenticate_glpi returns no token,    *)
(* ConnectionError is raised, the body never runs and kill_session is      *)
(* never called; when it returned a token, kill_session is called exactly  *)
(* once, with that token, at the moment the block is left, whether the     *)
(* body ran to its end or raised.                                          *)
(***************************************************************************)
InBlock == mpc \in {"body", "exit"}
LeftBlock == mpc \in {"except", "end"}

C26_BodyNeedsToken ==
    (mpc = "body" \/ steps > 0) =>
        Truthy(session_token) /\ as_token = session_token

\* without a token: ConnectionError, or the AttributeError authenticate_glpi
\* raised itself; no statement of the body, no call of kill_session
C26_NoTokenNoSession ==
    (mpc # "enter" /\ ~Truthy(session_token)) =>
        /\ LeftBlock
        /\ steps = 0
        /\ as_token = None
        /\ killed = <<>>
        /\ exc_type \in {Some("ConnectionError"), Some("AttributeError")}
        /\ exc_type = Some("AttributeError") =>
               session_token = None /\ error = None

C26_KilledOnce ==
    Truthy(session_token) =>
        /\ InBlock => killed = <<>>
        /\ LeftBlock =>
            /\ Len(killed) = 1
            /\ killed[1].session_token = session_token[1]

\* kill_session is called at the step that leaves the block, and nothing
\* changes the token once __enter__ has set it
C26_LeaveStep ==
    /\ killed' # killed => mpc = "exit" /\ mpc' \in {"except", "end"}
    /\ mpc = "enter" =>
        \/ mpc' = "body" /\ Truthy(session_token') /\ exc_type' = None
        \/ /\ mpc' = "except"
           /\ ~Truthy(session_token')
           /\ (session_token' # None \/ error' # None) =>
                  exc_type' = Some("ConnectionError")
    /\ mpc # "enter" => session_token' = session_token
    /\ (mpc = "exit" /\ mpc' = "except") => exc_type' = exc_type /\ exc_type # None

C26_Lifecycle ==
    /\ [](C26_BodyNeedsToken /\ C26_NoTokenNoSession /\ C26_KilledOnce)
    /\ [][C26_LeaveStep]_vars

\* the body raised after its first statement; the session was closed once,
\* and kill_session reported a failure that __exit__ passes over
C26_Witness ==
    /\ mpc = "end"
    /\ Truthy(session_token)
    /\ steps = 1
    /\ exc_type = Some("OSError")
    /\ Len(killed) = 1
    /\ killed[1].session_token = session_token[1]
    /\ ~killed[1].success
    /\ outcome = "Unexpected error"

\* the body ran to its end
C26_WitnessNormal ==
    /\ mpc = "end"
    /\ steps = MaxBodySteps
    /\ exc_type = None
    /\ Len(killed) = 1
    /\ killed[1].session_token = as_token[1]

\* GLPI answered with an empty session_token
C26_WitnessNoToken ==
    /\ mpc = "end"
    /\ session_token = Some(<<>>)
    /\ exc_type = Some("ConnectionError")
    /\ steps = 0
    /\ killed = <<>>
    /\ outcome = "Connection error"

====
